---- MODULE Spec2Model ----
(***************************************************************************)
(* The per-test lifecycle of sandbox-ts/src/main.ava.ts: the before-each   *)
(* hook (Worker.init, createSubAccount, deploy, save the context), the two *)
(* test bodies, and the after-each-always hook (tearDown with a catch).    *)
(* Every awaited call is two steps, the call being issued and the call     *)
(* settling (fulfilled or rejected); a call that never settles is a test   *)
(* that takes no further step.  The test cases of the file interleave at   *)
(* their awaits.                                                           *)
(***************************************************************************)
EXTENDS Integers, Sequences, FiniteSets

VARIABLES
    pc,          \* per test: the statement the test case is at
    awaiting,    \* per test: <<op>> while suspended at an await, else <<>>
    outstanding, \* per test: the operations issued and not yet settled
    context,     \* per test: t.context (worker, accounts), <<>> = not assigned
    locals,      \* per test: the hook's and the body's local constants
    sandboxes,   \* the sandbox servers started so far, by handle (index)
    log,         \* per test: the calls issued and settled, in order
    result       \* per test: what the runner knows (hooks, body, report)

vars == << pc, awaiting, outstanding, context, locals, sandboxes, log, result >>

\* The test cases registered in the file.
Tests == { "creates a new post", "gets all posts" }

\* The account name passed to createSubAccount.
AccountName == "test-account"

----------------------------------------------------------------------------
\* Strings the contract takes apart are sequences of characters.

Tags123 == << "t","a","g","1", ",", "t","a","g","2", ",", "t","a","g","3" >>
Tags456 == << "t","a","g","4", ",", "t","a","g","5", ",", "t","a","g","6" >>
Tags157 == << "t","a","g","1", ",", "t","a","g","5", ",", "t","a","g","7" >>

Tag3 == << "t","a","g","3" >>

\* The calls of a test body, in program order.
Body(t) ==
    IF t = "creates a new post"
    THEN << [ kind |-> "call", method |-> "add_post",
              args |-> [ title |-> "Test", description |-> "Test Description",
                         tags |-> Tags123, media |-> "post.png" ] ] >>
    ELSE << [ kind |-> "call", method |-> "add_post",
              args |-> [ title |-> "Test0", description |-> "Test Description0",
                         tags |-> Tags123, media |-> "post.png" ] ],
            [ kind |-> "call", method |-> "add_post",
              args |-> [ title |-> "Test1", description |-> "Test Description1",
                         tags |-> Tags456, media |-> "post.png" ] ],
            [ kind |-> "call", method |-> "add_post",
              args |-> [ title |-> "Test2", description |-> "Test Description2",
                         tags |-> Tags157, media |-> "post.png" ] ],
            [ kind |-> "view", method |-> "get_all_posts",
              args |-> [ title |-> "", description |-> "",
                         tags |-> << >>, media |-> "" ] ] >>

\* The assertions of a test body on what its calls returned.
Assertions(t, returned) ==
    IF t = "creates a new post"
    THEN /\ returned[1].title = "Test"
         /\ Len(returned[1].tags) >= 3
         /\ returned[1].tags[3] = Tag3
    ELSE /\ Len(returned[4]) >= 3
         /\ returned[4][2][2].title = "Test1"
         /\ returned[4][3][2].description = "Test Description2"

----------------------------------------------------------------------------
\* The contract deployed into the sub-account.

RECURSIVE SplitFrom(_, _, _)
SplitFrom(s, i, cur) ==
    IF i > Len(s) THEN << cur >>
    ELSE IF s[i] = "," THEN << cur >> \o SplitFrom(s, i + 1, << >>)
    ELSE SplitFrom(s, i + 1, Append(cur, s[i]))

\* Mutant: the tags string is stored whole, as one tag.
SplitTags_NoSplit(s) == << s >>

\* tags.split(",")
SplitTags(s) == SplitFrom(s, 1, << >>)

\* The record add_post stores and returns.
NewPost(args) ==
    [ title |-> args.title, description |-> args.description,
      tags |-> SplitTags(args.tags), media |-> args.media ]

\* Mutant: the new record is put in front of the older ones.
AddPost_Prepend(posts, args) == << NewPost(args) >> \o posts

\* The storage after add_post.
AddPost(posts, args) == Append(posts, NewPost(args))

\* get_all_posts: index/record pairs, indices from 0.
GetAllPosts(posts) == [ i \in 1 .. Len(posts) |-> << i - 1, posts[i] >> ]

----------------------------------------------------------------------------
Op(name, n) == [ name |-> name, n |-> n ]
Event(kind, op) == [ kind |-> kind, name |-> op.name, n |-> op.n ]

InitOp == Op("init", 0)
CreateSubAccountOp == Op("createSubAccount", 0)
DeployOp == Op("deploy", 0)
TearDownOp == Op("tearDown", 0)
BodyOp(t, n) == Op(Body(t)[n].method, n)

NoLocals == [ worker |-> << >>, root |-> << >>, contract |-> << >>,
              accounts |-> << >>, ip |-> 1, returned |-> << >> ]

NoResult == [ beforeEach |-> "none", body |-> "none", afterEach |-> "none",
              report |-> "none" ]

Init ==
    /\ pc = [ t \in Tests |-> "init" ]
    /\ awaiting = [ t \in Tests |-> << >> ]
    /\ outstanding = [ t \in Tests |-> {} ]
    /\ context = [ t \in Tests |-> [ worker |-> << >>, accounts |-> << >> ] ]
    /\ locals = [ t \in Tests |-> NoLocals ]
    /\ sandboxes = << >>
    /\ log = [ t \in Tests |-> << >> ]
    /\ result = [ t \in Tests |-> NoResult ]

\* Mutant: the call is issued and the test case goes on without awaiting it.
Await_NoSuspend(t, op) ==
    /\ awaiting[t] = << >>
    /\ outstanding' = [ outstanding EXCEPT ![t] = @ \cup { op } ]
    /\ log' = [ log EXCEPT ![t] = Append(@, Event("issue", op)) ]
    /\ UNCHANGED awaiting

\* `await op(...)`: the call is issued and the test case suspends on it.
Await(t, op) ==
    /\ awaiting[t] = << >>
    /\ awaiting' = [ awaiting EXCEPT ![t] = << op >> ]
    /\ outstanding' = [ outstanding EXCEPT ![t] = @ \cup { op } ]
    /\ log' = [ log EXCEPT ![t] = Append(@, Event("issue", op)) ]

\* The awaited call settles, fulfilled ("ok") or rejected ("err").
Settle(t, op, how) ==
    /\ awaiting[t] = << op >>
    /\ awaiting' = [ awaiting EXCEPT ![t] = << >> ]
    /\ outstanding' = [ outstanding EXCEPT ![t] = @ \ { op } ]
    /\ log' = [ log EXCEPT ![t] = Append(@, Event(how, op)) ]

\* Mutant: a rejected step of the before-each hook is tried again.
BeforeEachFails_Retry(t) ==
    /\ UNCHANGED << result, pc >>

\* The before-each hook rejects: the runner skips the body and goes to the
\* after-each-always hook.
BeforeEachFails(t) ==
    /\ result' = [ result EXCEPT ![t].beforeEach = "failed" ]
    /\ pc' = [ pc EXCEPT ![t] = "tearDown" ]

\* Mutant: the hook is registered with afterEach, which a failed body skips.
BodyFails_NotAlways(t) ==
    /\ result' = [ result EXCEPT ![t].body = "failed" ]
    /\ pc' = [ pc EXCEPT ![t] = "report" ]

\* The test body throws: the runner goes to the after-each-always hook.
BodyFails(t) ==
    /\ result' = [ result EXCEPT ![t].body = "failed" ]
    /\ pc' = [ pc EXCEPT ![t] = "tearDown" ]

----------------------------------------------------------------------------
\* test.beforeEach

\* const worker = await Worker.init()
CallWorkerInit(t) ==
    /\ pc[t] = "init"
    /\ Await(t, InitOp)
    /\ UNCHANGED << pc, context, locals, sandboxes, result >>

\* Worker.init() settles: a new sandbox server is running and its handle is
\* the hook's `worker`, or the start failed and the hook rejects.
WorkerInitReturns(t) ==
    /\ pc[t] = "init"
    /\ \/ /\ Settle(t, InitOp, "ok")
          /\ sandboxes' = Append(sandboxes,
                 [ running |-> TRUE, accounts |-> {}, deployed |-> {},
                   posts |-> << >> ])
          /\ locals' = [ locals EXCEPT ![t].worker = << Len(sandboxes) + 1 >>,
                                       ![t].root = << Len(sandboxes) + 1 >> ]
          /\ pc' = [ pc EXCEPT ![t] = "createSubAccount" ]
          /\ UNCHANGED << context, result >>
       \/ /\ Settle(t, InitOp, "err")
          /\ BeforeEachFails(t)
          /\ UNCHANGED << context, locals, sandboxes >>

\* const contract = await root.createSubAccount("test-account")
CallCreateSubAccount(t) ==
    /\ pc[t] = "createSubAccount"
    /\ Await(t, CreateSubAccountOp)
    /\ UNCHANGED << pc, context, locals, sandboxes, result >>

CreateSubAccountReturns(t) ==
    /\ pc[t] = "createSubAccount"
    /\ LET w == locals[t].root[1] IN
       \/ /\ AccountName \notin sandboxes[w].accounts
          /\ Settle(t, CreateSubAccountOp, "ok")
          /\ sandboxes' = [ sandboxes EXCEPT ![w].accounts = @ \cup { AccountName } ]
          /\ locals' = [ locals EXCEPT ![t].contract =
                 << [ sandbox |-> w, account |-> AccountName ] >> ]
          /\ pc' = [ pc EXCEPT ![t] = "deploy" ]
          /\ UNCHANGED << context, result >>
       \/ /\ Settle(t, CreateSubAccountOp, "err")
          /\ BeforeEachFails(t)
          /\ UNCHANGED << context, locals, sandboxes >>

\* Mutant: deploy is issued without await and the hook goes on.
CallDeploy_NoAwait(t) ==
    /\ pc[t] = "deploy"
    /\ awaiting[t] = << >>
    /\ outstanding' = [ outstanding EXCEPT ![t] = @ \cup { DeployOp } ]
    /\ log' = [ log EXCEPT ![t] = Append(@, Event("issue", DeployOp)) ]
    /\ pc' = [ pc EXCEPT ![t] = "saveContext" ]
    /\ UNCHANGED << awaiting, context, locals, sandboxes, result >>

\* await contract.deploy(process.argv[2])
CallDeploy(t) ==
    /\ pc[t] = "deploy"
    /\ Await(t, DeployOp)
    /\ UNCHANGED << pc, context, locals, sandboxes, result >>

DeployReturns(t) ==
    /\ pc[t] = "deploy"
    /\ LET c == locals[t].contract[1] IN
       \/ /\ Settle(t, DeployOp, "ok")
          /\ sandboxes' = [ sandboxes EXCEPT ![c.sandbox].deployed = @ \cup { c.account } ]
          /\ pc' = [ pc EXCEPT ![t] = "saveContext" ]
          /\ UNCHANGED << context, locals, result >>
       \/ /\ Settle(t, DeployOp, "err")
          /\ BeforeEachFails(t)
          /\ UNCHANGED << context, locals, sandboxes >>

\* Mutant: the context is one object shared by all test cases.
SaveContext_Shared(t) ==
    /\ pc[t] = "saveContext"
    /\ awaiting[t] = << >>
    /\ context' = [ u \in Tests |->
           [ worker |-> locals[t].worker,
             accounts |-> << [ root |-> locals[t].root[1],
                               contract |-> locals[t].contract[1] ] >> ] ]
    /\ result' = [ result EXCEPT ![t].beforeEach = "passed" ]
    /\ pc' = [ pc EXCEPT ![t] = "readContext" ]
    /\ UNCHANGED << awaiting, outstanding, locals, sandboxes, log >>

\* t.context.worker = worker; t.context.accounts = { root, contract }
\* and the hook returns: the runner starts the test body.
SaveContext(t) ==
    /\ pc[t] = "saveContext"
    /\ awaiting[t] = << >>
    /\ context' = [ context EXCEPT ![t] =
           [ worker |-> locals[t].worker,
             accounts |-> << [ root |-> locals[t].root[1],
                               contract |-> locals[t].contract[1] ] >> ] ]
    /\ result' = [ result EXCEPT ![t].beforeEach = "passed" ]
    /\ pc' = [ pc EXCEPT ![t] = "readContext" ]
    /\ UNCHANGED << awaiting, outstanding, locals, sandboxes, log >>

----------------------------------------------------------------------------
\* The test bodies.

\* const { root, contract } = t.context.accounts
ReadContext(t) ==
    /\ pc[t] = "readContext"
    /\ awaiting[t] = << >>
    /\ locals' = [ locals EXCEPT ![t].accounts = context[t].accounts ]
    /\ pc' = [ pc EXCEPT ![t] = "body" ]
    /\ UNCHANGED << awaiting, outstanding, context, sandboxes, log, result >>

\* await root.call(contract, "add_post", {...}) and
\* await contract.view("get_all_posts"): the next call of the body.
CallContract(t) ==
    /\ pc[t] = "body"
    /\ locals[t].ip <= Len(Body(t))
    /\ Await(t, BodyOp(t, locals[t].ip))
    /\ UNCHANGED << pc, context, locals, sandboxes, result >>

\* The call settles: the contract ran and its value is returned, or the
\* call was rejected and the body throws.
ContractReturns(t) ==
    /\ pc[t] = "body"
    /\ locals[t].ip <= Len(Body(t))
    /\ LET n == locals[t].ip
           b == Body(t)[n]
           c == locals[t].accounts[1].contract
           posts == sandboxes[c.sandbox].posts
       IN
       \/ /\ b.kind = "call"
          /\ c.account \in sandboxes[c.sandbox].deployed
          /\ Settle(t, BodyOp(t, n), "ok")
          /\ sandboxes' = [ sandboxes EXCEPT ![c.sandbox].posts = AddPost(posts, b.args) ]
          /\ locals' = [ locals EXCEPT ![t].returned = Append(@, NewPost(b.args)),
                                       ![t].ip = n + 1 ]
          /\ UNCHANGED << pc, context, result >>
       \/ /\ b.kind = "view"
          /\ c.account \in sandboxes[c.sandbox].deployed
          /\ Settle(t, BodyOp(t, n), "ok")
          /\ locals' = [ locals EXCEPT ![t].returned = Append(@, GetAllPosts(posts)),
                                       ![t].ip = n + 1 ]
          /\ UNCHANGED << pc, context, sandboxes, result >>
       \/ /\ Settle(t, BodyOp(t, n), "err")
          /\ BodyFails(t)
          /\ UNCHANGED << context, locals, sandboxes >>

\* t.is(...), t.is(...) and the body returns.
RunAssertions(t) ==
    /\ pc[t] = "body"
    /\ awaiting[t] = << >>
    /\ locals[t].ip > Len(Body(t))
    /\ result' = [ result EXCEPT ![t].body =
           IF Assertions(t, locals[t].returned) THEN "passed" ELSE "failed" ]
    /\ pc' = [ pc EXCEPT ![t] = "tearDown" ]
    /\ UNCHANGED << awaiting, outstanding, context, locals, sandboxes, log >>

----------------------------------------------------------------------------
\* test.afterEach.always

\* await t.context.worker.tearDown().catch(...): reading tearDown of a
\* worker that was never assigned throws a TypeError out of the hook.
CallTearDown(t) ==
    /\ pc[t] = "tearDown"
    /\ awaiting[t] = << >>
    /\ \/ /\ context[t].worker # << >>
          /\ Await(t, TearDownOp)
          /\ UNCHANGED << pc, context, locals, sandboxes, result >>
       \/ /\ context[t].worker = << >>
          /\ log' = [ log EXCEPT ![t] = Append(@, Event("throw", Op("TypeError", 0))) ]
          /\ result' = [ result EXCEPT ![t].afterEach = "failed" ]
          /\ pc' = [ pc EXCEPT ![t] = "report" ]
          /\ UNCHANGED << awaiting, outstanding, context, locals, sandboxes >>

\* Mutant: tearDown() is awaited without the catch handler.
TearDownReturns_NoCatch(t) ==
    /\ pc[t] = "tearDown"
    /\ LET w == context[t].worker[1] IN
       \/ /\ Settle(t, TearDownOp, "ok")
          /\ sandboxes' = [ sandboxes EXCEPT ![w].running = FALSE ]
          /\ result' = [ result EXCEPT ![t].afterEach = "passed" ]
       \/ /\ Settle(t, TearDownOp, "err")
          /\ result' = [ result EXCEPT ![t].afterEach = "failed" ]
          /\ UNCHANGED sandboxes
    /\ pc' = [ pc EXCEPT ![t] = "report" ]
    /\ UNCHANGED << context, locals >>

\* tearDown() settles: the sandbox server is stopped, or stopping failed and
\* the catch handler logs the error; either way the hook returns normally.
TearDownReturns(t) ==
    /\ pc[t] = "tearDown"
    /\ LET w == context[t].worker[1] IN
       \/ /\ Settle(t, TearDownOp, "ok")
          /\ sandboxes' = [ sandboxes EXCEPT ![w].running = FALSE ]
       \/ /\ awaiting[t] = << TearDownOp >>
          /\ awaiting' = [ awaiting EXCEPT ![t] = << >> ]
          /\ outstanding' = [ outstanding EXCEPT ![t] = @ \ { TearDownOp } ]
          /\ log' = [ log EXCEPT ![t] =
                 @ \o << Event("err", TearDownOp), Event("console.log", TearDownOp) >> ]
          /\ UNCHANGED sandboxes
    /\ result' = [ result EXCEPT ![t].afterEach = "passed" ]
    /\ pc' = [ pc EXCEPT ![t] = "report" ]
    /\ UNCHANGED << context, locals >>

\* The runner reports the test case: passed when the before-each hook, the
\* body and the after-each-always hook all passed.
Report(t) ==
    /\ pc[t] = "report"
    /\ result' = [ result EXCEPT ![t].report =
           IF /\ result[t].beforeEach = "passed"
              /\ result[t].body = "passed"
              /\ result[t].afterEach = "passed"
           THEN "passed" ELSE "failed" ]
    /\ pc' = [ pc EXCEPT ![t] = "done" ]
    /\ UNCHANGED << awaiting, outstanding, context, locals, sandboxes, log >>

----------------------------------------------------------------------------
Step(t) ==
    \/ CallWorkerInit(t)
    \/ WorkerInitReturns(t)
    \/ CallCreateSubAccount(t)
    \/ CreateSubAccountReturns(t)
    \/ CallDeploy(t)
    \/ DeployReturns(t)
    \/ SaveContext(t)
    \/ ReadContext(t)
    \/ CallContract(t)
    \/ ContractReturns(t)
    \/ RunAssertions(t)
    \/ CallTearDown(t)
    \/ TearDownReturns(t)
    \/ Report(t)

Next == \E t \in Tests : Step(t)

Spec == Init /\ [][Next]_vars

\* Every call that was issued settles, and every continuation that is ready
\* is run by the event loop.
FairSpec == Spec /\ \A t \in Tests : WF_vars(Step(t))

----------------------------------------------------------------------------
\* Reading the log of a test case.

\* The positions of log[t] holding an event of this kind and call name.
At(t, kind, name) ==
    { i \in DOMAIN log[t] : log[t][i].kind = kind /\ log[t][i].name = name }

Times(t, kind, name) == Cardinality(At(t, kind, name))

BodyNames == { "add_post", "get_all_posts" }

\* The positions at which a call of the test body was issued.
BodyIssues(t) ==
    { i \in DOMAIN log[t] : log[t][i].kind = "issue" /\ log[t][i].name \in BodyNames }

\* The positions of log[t] that issue a call or settle one.
IsCallEvent(e) == e.kind \in { "issue", "ok", "err" }

\* The add_post calls of test t that returned so far, as positions of Body(t).
Added(t) ==
    { n \in DOMAIN Body(t) :
        \E i \in At(t, "ok", "add_post") : log[t][i].n = n }

RECURSIVE Join(_)
\* The tags of a record put back together with commas.
Join(tags) ==
    IF Len(tags) = 0 THEN << >>
    ELSE IF Len(tags) = 1 THEN tags[1]
    ELSE tags[1] \o << "," >> \o Join(Tail(tags))

\* The calls a test case issues when nothing fails, before tearDown.
Program(t) ==
    << InitOp, CreateSubAccountOp, DeployOp >>
        \o [ n \in 1 .. Len(Body(t)) |-> BodyOp(t, n) ]

\* The calls issued and settled, without the other events.
Calls(t) == SelectSeq(log[t], IsCallEvent)

IsIssue(e) == e.kind = "issue"

\* The calls issued so far, in order.
Issued(t) ==
    LET is == SelectSeq(log[t], IsIssue)
    IN  [ i \in 1 .. Len(is) |-> Op(is[i].name, is[i].n) ]

\* The test body was started.
BodyRan(t) == result[t].beforeEach = "passed"

\* The view results a test case has received.
Views(t) ==
    { locals[t].returned[n] : n \in { m \in DOMAIN locals[t].returned :
                                        Body(t)[m].kind = "view" } }

----------------------------------------------------------------------------
\* C1: every Worker that Worker.init() started has tearDown() invoked on it
\* exactly once by the time its test case has finished, on every exit path,
\* also when createSubAccount or deploy failed after the Worker was started.
C1_WorkerReleasedOnEveryPath ==
    \A t \in Tests :
        (pc[t] = "done" /\ Times(t, "ok", "init") = 1)
            => Times(t, "issue", "tearDown") = 1

\* C2: a test case whose body runs performed exactly one Worker.init(), no
\* tearDown() is attempted before the body has ended, exactly one is
\* attempted after it (body passed or failed), and never more than one.
C2_OneInitOneTearDown ==
    \A t \in Tests :
        /\ Times(t, "issue", "tearDown") <= 1
        /\ BodyRan(t) =>
              /\ Times(t, "issue", "init") = 1
              /\ Times(t, "ok", "init") = 1
              /\ pc[t] \in { "readContext", "body" }
                    => Times(t, "issue", "tearDown") = 0
              /\ pc[t] \in { "report", "done" } =>
                    /\ result[t].body \in { "passed", "failed" }
                    /\ Times(t, "issue", "tearDown") = 1
                    /\ \A i \in BodyIssues(t) :
                          \A j \in At(t, "issue", "tearDown") : i < j

C2_Witness ==
    /\ \E t \in Tests : /\ pc[t] = "done" /\ result[t].body = "failed"
                        /\ Times(t, "issue", "tearDown") = 1
    /\ \E t \in Tests : /\ pc[t] = "done" /\ result[t].body = "passed"
                        /\ Times(t, "issue", "tearDown") = 1

\* C3: a tearDown() that fails is caught and logged, the after-each hook
\* returns normally with nothing thrown, and the reported outcome of the
\* test case is the outcome of its body.
C3_TearDownFailureSwallowed ==
    \A t \in Tests :
        \A i \in At(t, "err", "tearDown") :
            /\ i < Len(log[t])
            /\ log[t][i + 1].kind = "console.log"
            /\ At(t, "throw", "TypeError") = {}
            /\ result[t].afterEach = "passed"
            /\ result[t].body \in { "passed", "failed" }
            /\ pc[t] = "done" => result[t].report = result[t].body

C3_Witness ==
    /\ \E t \in Tests : /\ pc[t] = "done" /\ At(t, "err", "tearDown") # {}
                        /\ result[t].body = "passed" /\ result[t].report = "passed"
    /\ \E t \in Tests : /\ pc[t] = "done" /\ At(t, "err", "tearDown") # {}
                        /\ result[t].body = "failed" /\ result[t].report = "failed"

\* C4: two test cases never hold the same Worker or the same contract
\* account, in their contexts or in their locals, and a get_all_posts result
\* of one test case holds no record that another test case added.
C4_Isolation ==
    \A t \in Tests : \A u \in Tests \ { t } :
        /\ context[t].worker # << >> => context[t].worker # context[u].worker
        /\ context[t].accounts # << >> => context[t].accounts # context[u].accounts
        /\ locals[t].worker # << >> => locals[t].worker # locals[u].worker
        /\ locals[t].contract # << >> => locals[t].contract # locals[u].contract
        /\ locals[t].accounts # << >> => locals[t].accounts # locals[u].accounts
        /\ \A r \in Views(t) : \A i \in DOMAIN r : \A n \in Added(u) :
              r[i][2].title # Body(u)[n].args.title

C4_Witness ==
    \E t \in Tests : \E u \in Tests \ { t } :
        /\ Views(t) # {}
        /\ Added(u) # {}
        /\ context[t].worker # << >>
        /\ context[u].worker # << >>

\* C5: a step of the before-each hook is issued at most once; when one of
\* them fails the hook has failed, no call of the test body is issued, the
\* body has no outcome and the test case is reported as failed.
C5_SetupFailureSkipsBody ==
    \A t \in Tests :
        /\ \A name \in { "init", "createSubAccount", "deploy" } :
              /\ Times(t, "issue", name) <= 1
              /\ At(t, "err", name) # {} => result[t].beforeEach = "failed"
        /\ result[t].beforeEach = "failed" =>
              /\ BodyIssues(t) = {}
              /\ locals[t].returned = << >>
              /\ result[t].body = "none"
              /\ pc[t] = "done" => result[t].report = "failed"

C5_Witness ==
    /\ \E t \in Tests : pc[t] = "done" /\ At(t, "err", "init") # {}
    /\ \E t \in Tests : pc[t] = "done" /\ At(t, "err", "deploy") # {}

\* C6: a test case has at most one call outstanding; its calls are issued
\* in program order (init, createSubAccount, deploy, the body's calls, then
\* tearDown), each one only after the one before it has settled; a body
\* call is issued only after deploy succeeded and the previous body call
\* returned, and never after tearDown was issued.
C6_Sequential ==
    \A t \in Tests :
        /\ Cardinality(outstanding[t]) <= 1
        /\ \A i \in DOMAIN Calls(t) :
              IF i % 2 = 1
              THEN Calls(t)[i].kind = "issue"
              ELSE /\ Calls(t)[i].kind \in { "ok", "err" }
                   /\ Calls(t)[i].name = Calls(t)[i - 1].name
                   /\ Calls(t)[i].n = Calls(t)[i - 1].n
        /\ \E k \in 0 .. Len(Program(t)) :
              \/ Issued(t) = SubSeq(Program(t), 1, k)
              \/ Issued(t) = Append(SubSeq(Program(t), 1, k), TearDownOp)
        /\ \A i \in BodyIssues(t) :
              /\ \E j \in At(t, "ok", "deploy") : j < i
              /\ log[t][i - 1].kind = "ok"
              /\ \A j \in At(t, "issue", "tearDown") : i < j

C6_Witness ==
    \E t \in Tests :
        /\ pc[t] = "done"
        /\ Len(Body(t)) = Cardinality(BodyIssues(t))
        /\ Cardinality(BodyIssues(t)) > 1
        /\ Times(t, "issue", "tearDown") = 1

\* C7: after N add_post calls of a test case have returned, get_all_posts
\* on its contract gives exactly N index/record pairs, pair i with index
\* i - 1 and the record of the i-th call; the view result of "gets all
\* posts" has title "Test1" in entry 1 and description "Test Description2"
\* in entry 2.
C7_InsertionOrder ==
    \A t \in Tests :
        /\ locals[t].accounts # << >> =>
              LET c == locals[t].accounts[1].contract
                  all == GetAllPosts(sandboxes[c.sandbox].posts)
              IN  /\ Len(all) = Cardinality(Added(t))
                  /\ \A i \in DOMAIN all :
                        /\ i \in Added(t)
                        /\ all[i][1] = i - 1
                        /\ all[i][2].title = Body(t)[i].args.title
                        /\ all[i][2].description = Body(t)[i].args.description
        /\ \A r \in Views(t) :
              /\ Len(r) = Cardinality(Added(t))
              /\ \A i \in DOMAIN r :
                    /\ r[i][1] = i - 1
                    /\ r[i][2].title = Body(t)[i].args.title
                    /\ r[i][2].description = Body(t)[i].args.description
              /\ t = "gets all posts" =>
                    /\ Len(r) = 3
                    /\ r[2][2].title = "Test1"
                    /\ r[3][2].description = "Test Description2"

C7_Witness ==
    \E t \in Tests : Views(t) # {} /\ Cardinality(Added(t)) = 3

\* C8: the record an add_post call returns has the title of its payload and
\* tags that hold no comma and, joined with commas, give the payload's tags
\* string; the same holds of the record in a later get_all_posts result; for
\* "tag1,tag2,tag3" the third tag is "tag3".
C8_RoundTrip ==
    \A t \in Tests :
        /\ \A n \in DOMAIN locals[t].returned :
              Body(t)[n].kind = "call" =>
                 LET post == locals[t].returned[n] IN
                 /\ post.title = Body(t)[n].args.title
                 /\ Join(post.tags) = Body(t)[n].args.tags
                 /\ \A k \in DOMAIN post.tags :
                       \A j \in DOMAIN post.tags[k] : post.tags[k][j] # ","
                 /\ Body(t)[n].args.tags = Tags123 =>
                       Len(post.tags) = 3 /\ post.tags[3] = Tag3
        /\ \A r \in Views(t) : \A i \in DOMAIN r :
              /\ r[i][2].title = Body(t)[i].args.title
              /\ Join(r[i][2].tags) = Body(t)[i].args.tags
              /\ \A k \in DOMAIN r[i][2].tags :
                    \A j \in DOMAIN r[i][2].tags[k] : r[i][2].tags[k][j] # ","

C8_Witness ==
    /\ Len(locals["creates a new post"].returned) = 1
    /\ Views("gets all posts") # {}

\* C9: while Worker.init or deploy stays outstanding its test case stays at
\* that step (no timeout moves it on), and when every issued call settles
\* every test case finishes with a reported outcome.
C9_NoTimeoutAndTermination ==
    /\ [][ \A t \in Tests : \A op \in { InitOp, DeployOp } :
              (op \in outstanding[t] /\ op \in outstanding'[t]) =>
                  /\ pc'[t] = pc[t]
                  /\ awaiting'[t] = awaiting[t]
                  /\ log'[t] = log[t]
                  /\ result'[t] = result[t] ]_vars
    /\ \A t \in Tests :
          <>[](pc[t] = "done" /\ result[t].report \in { "passed", "failed" })

C9_Witness ==
    \E t \in Tests : \E u \in Tests \ { t } :
        /\ DeployOp \in outstanding[t]
        /\ pc[u] = "done"
        /\ result[u].report \in { "passed", "failed" }

\* C10: whenever the after-each-always hook runs the context holds a Worker,
\* so the hook throws no error of its own, also after a failed before-each.
C10_AfterEachFindsWorker ==
    \A t \in Tests :
        /\ pc[t] = "tearDown" => context[t].worker # << >>
        /\ At(t, "throw", "TypeError") = {}

====
